---- MODULE Spec2Model ----
(***************************************************************************)
(* A model of cncs-sm2-kit: the SM2 sign / verify / encrypt / decrypt      *)
(* entry points of src/cncs-sm2-kit/src/lib.rs and the key and signature   *)
(* value types of src/cncs-sm2-kit/src/types.                              *)
(*                                                                         *)
(* The kit delegates the curve arithmetic to two libraries: libsm (sign,   *)
(* verify) and gmsm (encrypt, decrypt, public key derivation).  Their      *)
(* algorithms are modelled here as the kit calls them.  256-bit arithmetic *)
(* is out of TLC's reach, so the curve is scaled down: a curve of prime    *)
(* order N over the field of P elements, a byte of 4 bits, a coordinate of *)
(* CoordLen bytes and a digest of HashLen bytes.  The string and byte      *)
(* codecs of src/cncs-sm2-kit/src/types keep their real widths (64, 128    *)
(* and 130 characters, 32 bytes): there a number is a sequence of hex      *)
(* digits and no arithmetic is needed.                                     *)
(***************************************************************************)
EXTENDS Integers, Sequences, FiniteSets, TLC

VARIABLES
    pc,        \* position of the sign / verify scenario
    sk,        \* PrivateKey.d handed to sign
    smsg,      \* msg handed to sign
    suid,      \* user_id handed to sign (an Option)
    nonce,     \* the k of the iteration of sign_raw that returned
    sdigest,   \* the digest e_bytes that sign handed to sign_raw
    sig,       \* the Signature sign returned
    retries,   \* iterations of the running sign_raw loop that ended in `continue`
    vpk,       \* PublicKey handed to verify
    vmsg,      \* msg handed to verify
    vuid,      \* user_id handed to verify
    vsig,      \* Signature handed to verify
    vdigest,   \* the digest verify handed to verify_raw (empty: none)
    vret,      \* what verify did: Ok(bool), Err(..) or an abort
    cpath,     \* codec scenario: the operations applied so far
    ckind,     \* the type exercised: PrivateKey, PublicKey or Signature
    cval0,     \* the value the scenario started from, if it started from one
    cstr0,     \* the strings the scenario started from, if it started from some
    cval,      \* the value in hand
    cstr,      \* the strings in hand: one, or one per component
    cbytes,    \* the bytes to_concated_bytes returned
    cres,      \* how the last operation ended
    ephase,    \* position of the encrypt / decrypt scenario
    ekey,      \* the d of the key pair: encrypt gets its public key
    emsg,      \* msg handed to encrypt
    emode,     \* mode handed to encrypt (an Option)
    ek,        \* the k of the iteration of gmsm's encrypt that returned
    eretries,  \* iterations of the running encrypt loop that ended in `continue`
    ect,       \* the bytes encrypt returned
    dmsg,      \* msg (the ciphertext) handed to decrypt
    dmode,     \* mode handed to decrypt
    dret       \* what decrypt did: bytes returned, or an abort

signVars == <<pc, sk, smsg, suid, nonce, sdigest, sig, retries,
              vpk, vmsg, vuid, vsig, vdigest, vret>>

codecVars == <<cpath, ckind, cval0, cstr0, cval, cstr, cbytes, cres>>

encVars == <<ephase, ekey, emsg, emode, ek, eretries, ect, dmsg, dmode, dret>>

vars == <<signVars, codecVars, encVars>>

-----------------------------------------------------------------------------
(* Bounds of the model.                                                    *)

\* longest message handed to sign and verify
MaxMsgLen == 1
\* longest message handed to encrypt
MaxPlainLen == 2
\* user_id strings besides the default one: "", "1", .. up to this digit
MaxIdChar == 1
\* `continue` iterations of a retry loop that the model follows
MaxRetries == 1
\* largest foreign public key coordinate tried below the field width
MaxCoord == 3

-----------------------------------------------------------------------------
(* Option<T>: None is the empty sequence, Some(v) the one-element one.     *)

None == <<>>

Some(v) == <<v>>

IsSome(o) == Len(o) = 1

Unwrap(o) == o[1]

SeqsUpTo(S, n) == UNION {[1..k -> S] : k \in 0..n}

-----------------------------------------------------------------------------
(* Bytes and big integers (scaled: a byte holds 4 bits).                   *)

ByteBase == 16

RECURSIVE from_bytes_be(_)
\* BigUint::from_bytes_be
from_bytes_be(bytes) ==
    IF bytes = <<>> THEN 0
    ELSE from_bytes_be(SubSeq(bytes, 1, Len(bytes) - 1)) * ByteBase
         + bytes[Len(bytes)]

RECURSIVE to_bytes_be(_)
\* BigUint::to_bytes_be: no leading zero byte, and one zero byte for 0
to_bytes_be(num) ==
    IF num < ByteBase THEN <<num>>
    ELSE Append(to_bytes_be(num \div ByteBase), num % ByteBase)

Zeros(k) == [i \in 1..k |-> 0]

-----------------------------------------------------------------------------
(* The curve y^2 = x^3 + A x + B over GF(P), of prime order N, as          *)
(* libsm::sm2::ecc::EccCtx and gmsm::g2::p256::Sm2P256Curve hold it.       *)

P == 11

A == 8

B == 1

N == 17

\* bytes of a field element and of a coordinate on the wire (32 in SM2)
CoordLen == 1

\* bytes of an SM3 digest (32 in SM2)
HashLen == 2

Inf == [inf |-> TRUE, x |-> 0, y |-> 0]

Pt(x, y) == [inf |-> FALSE, x |-> x, y |-> y]

G == Pt(2, 5)

OnCurve(x, y) == (y * y) % P = (x * x * x + A * x + B) % P

InvTable == [z \in 1..(P - 1) |-> CHOOSE i \in 1..(P - 1) : (i * z) % P = 1]

\* FieldCtx::inv: the inverse of a non-zero field element
inv(z) == InvTable[z]

\* EccCtx::add (the result taken in affine form)
add(p1, p2) ==
    IF p1.inf THEN p2
    ELSE IF p2.inf THEN p1
    ELSE IF p1.x = p2.x /\ (p1.y + p2.y) % P = 0 THEN Inf
    ELSE LET lam == IF p1.x = p2.x
                    THEN ((3 * p1.x * p1.x + A) * inv((2 * p1.y) % P)) % P
                    ELSE ((p2.y - p1.y) * inv((p2.x - p1.x) % P)) % P
             x3 == (lam * lam - p1.x - p2.x) % P
             y3 == (lam * (p1.x - x3) - p1.y) % P
         IN  Pt(x3, y3)

RECURSIVE scalar_mul(_, _)
\* k times the point p, by repeated addition
scalar_mul(k, p) == IF k = 0 THEN Inf ELSE add(p, scalar_mul(k - 1, p))

\* the points of the curve, with the point at infinity
CurvePoints ==
    {Inf} \cup {Pt(x, y) : <<x, y>> \in {c \in (0..(P - 1)) \X (0..(P - 1)) :
                                            OnCurve(c[1], c[2])}}

\* the multiples of every point, computed once
MulTable == [k \in 0..N, p \in CurvePoints |-> scalar_mul(k, p)]

\* EccCtx::mul / Sm2P256Curve::scalar_mult: k times the point p
mul(k, p) == MulTable[k % N, p]

\* EccCtx::g_mul / Sm2P256Curve::scalar_base_mult
g_mul(k) == mul(k, G)

\* EccCtx::inv_n: the inverse modulo the group order
inv_n(z) == CHOOSE i \in 1..(N - 1) : (i * z) % N = 1

-----------------------------------------------------------------------------
(* SM3, scaled to a digest of HashLen bytes: a mixing function of the      *)
(* whole input, collisions included.                                       *)

\* the chaining value after the last byte of data
Sm3Acc(data) ==
    LET f[i \in 0..Len(data)] ==
            IF i = 0 THEN 7 ELSE (f[i - 1] * 37 + data[i] + 11) % 251
    IN  f[Len(data)]

\* libsm::sm3::hash::Sm3Hash::get_hash / gmsm::g3::sm3
Sm3(data) == <<Sm3Acc(data) \div ByteBase, Sm3Acc(data) % ByteBase>>

\* a field element as CoordLen big-endian bytes (FieldElem::to_bytes)
FieldBytes(v) == Zeros(CoordLen - Len(to_bytes_be(v))) \o to_bytes_be(v)

-----------------------------------------------------------------------------
(* The value types of src/cncs-sm2-kit/src/types and their conversions to  *)
(* the libraries' types.                                                   *)

PrivateKey(d) == [d |-> d]

PublicKey(x, y) == [x |-> x, y |-> y]

Signature(r, s) == [r |-> r, s |-> s]

\* impl From<&PrivateKey> for libsm::sm2::ecc::Point
LibsmPoint_from_PrivateKey(k) == g_mul(k.d)

\* impl From<&PrivateKey> for gmsm::g2::subject::PrivateKey
GmsmPrivateKey_from(k) ==
    LET q == g_mul(from_bytes_be(to_bytes_be(k.d)))
    IN  [public_key |-> [x |-> q.x, y |-> q.y], d |-> k.d]

\* PrivateKey::public_key, through impl From<&gmsm PublicKey> for PublicKey
public_key(k) ==
    PublicKey(GmsmPrivateKey_from(k).public_key.x,
              GmsmPrivateKey_from(k).public_key.y)

\* FieldElem::from_biguint leaves no room for more than CoordLen bytes
FitsField(v) == Len(to_bytes_be(v)) <= CoordLen

\* impl TryFrom<&PublicKey> for libsm::sm2::ecc::Point: the two
\* FieldElem::from_biguint calls are evaluated first and abort on a number
\* wider than a field element; EccCtx::new_point then checks the curve
\* equation and reports a point off the curve as an error.
LibsmPoint_try_from(k) ==
    IF ~(FitsField(k.x) /\ FitsField(k.y)) THEN [kind |-> "abort", pt |-> Inf]
    ELSE IF ~OnCurve(k.x, k.y) THEN [kind |-> "Err", pt |-> Inf]
    ELSE [kind |-> "Ok", pt |-> Pt(k.x, k.y)]

\* the conversion with r and s taken for each other
LibsmSignature_from_swapped(s) ==
    [r |-> from_bytes_be(to_bytes_be(s.s)), s |-> from_bytes_be(to_bytes_be(s.r))]

\* impl From<&Signature> for libsm::sm2::signature::Signature
LibsmSignature_from(s) ==
    [r |-> from_bytes_be(to_bytes_be(s.r)), s |-> from_bytes_be(to_bytes_be(s.s))]

\* impl From<&libsm::sm2::signature::Signature> for Signature
Signature_from_libsm(s) == Signature(s.r, s.s)

-----------------------------------------------------------------------------
(* libsm::sm2::signature::SigCtx, as sign and verify call it.              *)

\* the identity SigCtx::sign and SigCtx::verify hash with: "1234567812345678"
DefaultUserId == <<1, 2, 3, 4, 5, 6, 7, 8, 1, 2, 3, 4, 5, 6, 7, 8>>

\* the bit length of the identity, as a big-endian u16
Entl(id) == <<((Len(id) * 8) \div ByteBase) % ByteBase, (Len(id) * 8) % ByteBase>>

\* Z = Sm3(ENTL || id || a || b || xG || yG || xA || yA)
ZA(id, pk) ==
    Sm3(Entl(id) \o id \o FieldBytes(A) \o FieldBytes(B)
        \o FieldBytes(G.x) \o FieldBytes(G.y)
        \o FieldBytes(pk.x) \o FieldBytes(pk.y))

\* SigCtx::hash(id, pk, msg): e = Sm3(Z || msg)
SigCtx_hash(id, pk, msg) == Sm3(ZA(id, pk) \o msg)

\* One iteration of the loop of SigCtx::sign_raw(digest, sk), with k the
\* number random_uint returned: `continue` on r = 0 or r + k = n, the
\* signature when s is not 0, and the panic after the test of s otherwise.
sign_raw(digest, d, k) ==
    LET e    == from_bytes_be(digest)
        x1   == g_mul(k).x
        r    == (e + x1) % N
        s1   == inv_n((d + 1) % N)
        s2_1 == IF r * d < k THEN r * d + N ELSE r * d
        s2   == N - ((s2_1 - k) % N)
        s    == (s1 * s2) % N
    IN  IF r = 0 \/ r + k = N THEN [kind |-> "continue", sig |-> [r |-> 0, s |-> 0]]
        ELSE IF s # 0 THEN [kind |-> "return", sig |-> [r |-> r, s |-> s]]
        ELSE [kind |-> "panic", sig |-> [r |-> 0, s |-> 0]]

\* SigCtx::verify_raw(digest, pk, sig); EccCtx::to_affine aborts on the
\* point at infinity
verify_raw(digest, pk, sg) ==
    LET e  == from_bytes_be(digest)
        t  == (sg.s + sg.r) % N
        p1 == add(g_mul(sg.s), mul(t, pk))
    IN  IF sg.r = 0 \/ sg.s = 0 THEN "false"
        ELSE IF sg.r >= N \/ sg.s >= N THEN "false"
        ELSE IF t = 0 THEN "false"
        ELSE IF p1.inf THEN "abort"
        ELSE IF (e + p1.x) % N = sg.r THEN "true" ELSE "false"

\* the digest SigCtx::sign(msg, sk, pk) and SigCtx::verify(msg, pk, sig)
\* compute before calling sign_raw / verify_raw
SigCtx_digest(msg, pk) == SigCtx_hash(DefaultUserId, pk, msg)

-----------------------------------------------------------------------------
(* src/cncs-sm2-kit/src/lib.rs: sign and verify.                           *)

\* sign with the absent user_id signing the digest of the message alone
sign_digest_raw(private_key, msg, user_id) ==
    LET pk == LibsmPoint_from_PrivateKey(private_key)
    IN  IF IsSome(user_id) THEN SigCtx_hash(Unwrap(user_id), pk, msg)
        ELSE Sm3(msg)

\* the digest sign signs: the user_id branch of lines 35-40
sign_digest(private_key, msg, user_id) ==
    LET pk == LibsmPoint_from_PrivateKey(private_key)
    IN  IF IsSome(user_id) THEN SigCtx_hash(Unwrap(user_id), pk, msg)
        ELSE SigCtx_digest(msg, pk)

\* verify with the absent user_id checking the digest of the message alone
verify_digest_raw(pk, msg, user_id) ==
    IF IsSome(user_id) THEN SigCtx_hash(Unwrap(user_id), pk, msg)
    ELSE Sm3(msg)

\* the digest verify checks: the user_id branch of lines 62-67
verify_digest(pk, msg, user_id) ==
    IF IsSome(user_id) THEN SigCtx_hash(Unwrap(user_id), pk, msg)
    ELSE SigCtx_digest(msg, pk)

\* verify(public_key, msg, user_id, signature)
verify(public_key_, msg, user_id, signature) ==
    LET conv == LibsmPoint_try_from(public_key_)
        ret  == verify_raw(verify_digest(conv.pt, msg, user_id), conv.pt,
                           LibsmSignature_from(signature))
    IN  IF conv.kind = "abort" THEN "abort"
        ELSE IF conv.kind = "Err" THEN "Err(ToLibsmPointFailed)"
        ELSE IF ret = "abort" THEN "abort"
        ELSE IF ret = "true" THEN "Ok(true)" ELSE "Ok(false)"

-----------------------------------------------------------------------------
(* gmsm::g2::subject::{encrypt, decrypt}, as src/cncs-sm2-kit/src/lib.rs   *)
(* calls them.  Both return Vec<u8>: a call ends with bytes or aborts.     *)

RECURSIVE BitXor(_, _)
BitXor(a, b) ==
    IF a = 0 /\ b = 0 THEN 0
    ELSE ((a + b) % 2) + 2 * BitXor(a \div 2, b \div 2)

XorTable == [a \in 0..(ByteBase - 1), b \in 0..(ByteBase - 1) |-> BitXor(a, b)]

\* the ^= of two byte strings of one length
Xor(s, t) == [i \in 1..Len(s) |-> XorTable[s[i], t[i]]]

\* gmsm::g2::consts
gmsm_C1C3C2 == 0

gmsm_C1C2C3 == 1

\* the lengths of C1 (without its marker byte) and of C3
C1Len == 2 * CoordLen

C3Len == HashLen

\* kdf(length, x2, y2): SM3 of x2 || y2 || ct for the counter ct = 1, 2, ..
\* written as four bytes, cut to length; it reports failure when the
\* stream has no non-zero byte, which is so for every stream of length 0.
kdf(length, z) ==
    LET block(ct) == Sm3(z \o <<0, 0, 0, ct>>)
        c == [i \in 1..length |->
                 block(((i - 1) \div HashLen) + 1)[((i - 1) % HashLen) + 1]]
    IN  [c |-> c, ok |-> \E i \in 1..length : c[i] # 0]

\* impl From<&PublicKey> for gmsm::g2::subject::PublicKey
GmsmPublicKey_from(k) == [x |-> k.x, y |-> k.y]

\* one iteration of the loop of gmsm's encrypt, with the k it drew
gmsm_encrypt(pub_key, data, mode, k) ==
    LET p1 == g_mul(k)
        p2 == mul(k, Pt(pub_key.x, pub_key.y))
        c1 == FieldBytes(p1.x) \o FieldBytes(p1.y)
        z  == FieldBytes(p2.x) \o FieldBytes(p2.y)
        c3 == Sm3(FieldBytes(p2.x) \o data \o FieldBytes(p2.y))
        t  == kdf(Len(data), z)
        c2 == Xor(t.c, data)
    IN  IF ~t.ok THEN [kind |-> "continue", bytes |-> <<>>]
        ELSE IF mode = gmsm_C1C2C3
        THEN [kind |-> "return", bytes |-> <<4>> \o c1 \o c2 \o c3]
        ELSE [kind |-> "return", bytes |-> <<4>> \o c1 \o c3 \o c2]

\* gmsm's decrypt: the ways the call can end.  The marker byte is dropped,
\* a C1C2C3 input is reordered, and `len - 96` (here C1Len + C3Len) and the
\* slices abort on an input that is too short.  The library's source is
\* not part of this repository: when the kdf reports failure or the
\* recomputed C3 differs, the call either aborts or returns the bytes it
\* recovered.
gmsm_decrypt(pri_key, data, mode) ==
    IF Len(data) < 1 + C1Len + C3Len THEN {[kind |-> "abort", bytes |-> <<>>]}
    ELSE
    LET body == Tail(data)
        n    == Len(body)
        c    == IF mode = gmsm_C1C2C3
                THEN SubSeq(body, 1, C1Len) \o SubSeq(body, n - C3Len + 1, n)
                     \o SubSeq(body, C1Len + 1, n - C3Len)
                ELSE body
        length == n - (C1Len + C3Len)
        x    == from_bytes_be(SubSeq(c, 1, CoordLen))
        y    == from_bytes_be(SubSeq(c, CoordLen + 1, C1Len))
        p2   == mul(pri_key.d, Pt(x, y))
        z    == FieldBytes(p2.x) \o FieldBytes(p2.y)
        t    == kdf(length, z)
        m    == Xor(t.c, SubSeq(c, C1Len + C3Len + 1, n))
        h    == Sm3(FieldBytes(p2.x) \o m \o FieldBytes(p2.y))
    IN  IF t.ok /\ h = SubSeq(c, C1Len + 1, C1Len + C3Len)
        THEN {[kind |-> "bytes", bytes |-> m]}
        ELSE {[kind |-> "abort", bytes |-> <<>>], [kind |-> "bytes", bytes |-> m]}

-----------------------------------------------------------------------------
(* src/cncs-sm2-kit/src/types/encrypt_mode.rs and encrypt / decrypt of     *)
(* src/cncs-sm2-kit/src/lib.rs                                             *)

EncryptMode == {"C1C2C3", "C1C3C2"}

\* the default taken to be the other variant
EncryptMode_default_C1C2C3 == "C1C2C3"

\* impl Default for EncryptMode
EncryptMode_default == "C1C3C2"

\* Option::unwrap_or_default
unwrap_or_default(mode) == IF IsSome(mode) THEN Unwrap(mode) ELSE EncryptMode_default

\* EncryptMode::to_gmsm_mode
to_gmsm_mode(mode) == IF mode = "C1C2C3" THEN gmsm_C1C2C3 ELSE gmsm_C1C3C2

\* encrypt(public_key, msg, mode), for the k that gmsm draws
encrypt(public_key_, msg, mode, k) ==
    gmsm_encrypt(GmsmPublicKey_from(public_key_), msg,
                 to_gmsm_mode(unwrap_or_default(mode)), k)

\* decrypt(private_key, msg, mode)
decrypt(private_key, msg, mode) ==
    gmsm_decrypt(GmsmPrivateKey_from(private_key), msg,
                 to_gmsm_mode(unwrap_or_default(mode)))

-----------------------------------------------------------------------------
(* Strings, as the codecs of src/cncs-sm2-kit/src/types see them: a &str   *)
(* is its UTF-8 bytes, one ASCII character per byte and two bytes, a lead  *)
(* byte and a continuation byte, for a character such as U+00E9.           *)

HexUpper == <<"0", "1", "2", "3", "4", "5", "6", "7",
              "8", "9", "A", "B", "C", "D", "E", "F">>

HexLower == <<"0", "1", "2", "3", "4", "5", "6", "7",
              "8", "9", "a", "b", "c", "d", "e", "f">>

\* the two bytes of U+00E9
LeadByte == "<C3>"

ContByte == "<A9>"

IsUpperHex(c) == \E i \in 1..16 : HexUpper[i] = c

IsHex(c) == \E i \in 1..16 : HexUpper[i] = c \/ HexLower[i] = c

\* the value of a hex digit
HexValue(c) == (CHOOSE i \in 1..16 : HexUpper[i] = c \/ HexLower[i] = c) - 1

\* str::len: the number of bytes
StrLen(str) == Len(str)

\* str::is_char_boundary
is_char_boundary(str, i) ==
    \/ i = 0
    \/ i = Len(str)
    \/ i < Len(str) /\ str[i + 1] # ContByte

\* str::starts_with
starts_with(str, prefix) ==
    Len(str) >= Len(prefix) /\ SubSeq(str, 1, Len(prefix)) = prefix

\* &str[from..to] aborts unless both ends are character boundaries in range
CanSlice(str, from, to) ==
    /\ from <= to
    /\ to <= Len(str)
    /\ is_char_boundary(str, from)
    /\ is_char_boundary(str, to)

\* &str[from..to], bytes from+1 .. to counted from one
Slice(str, from, to) == SubSeq(str, from + 1, to)

Repeat(c, k) == [i \in 1..k |-> c]

-----------------------------------------------------------------------------
(* num_bigint::BigUint in the codecs: its hex digits, most significant     *)
(* first, without leading zeros; zero has no digit.                        *)

RECURSIVE Normalize(_)
Normalize(digits) ==
    IF digits = <<>> THEN <<>>
    ELSE IF digits[1] # 0 THEN digits
    ELSE Normalize(Tail(digits))

\* BigUint::from_str_radix(s, 16): one leading '+' is dropped, the empty
\* string and a leading '_' are errors, every later '_' is skipped and
\* every other byte must be a digit below the radix.
from_str_radix(str) ==
    LET s1 == IF starts_with(str, <<"+">>) /\ ~starts_with(Tail(str), <<"+">>)
              THEN Tail(str) ELSE str
        body == SelectSeq(s1, LAMBDA c : c # "_")
    IN  IF s1 = <<>> THEN [kind |-> "Err", err |-> "Empty", num |-> <<>>]
        ELSE IF s1[1] = "_" \/ \E i \in 1..Len(body) : ~IsHex(body[i])
        THEN [kind |-> "Err", err |-> "InvalidDigit", num |-> <<>>]
        ELSE [kind |-> "Ok", err |-> "",
              num |-> Normalize([i \in 1..Len(body) |-> HexValue(body[i])])]

\* BigUint::to_bytes_be: the bytes without a leading zero byte; one zero
\* byte for zero
BigUint_to_bytes_be(num) ==
    LET d == IF Len(num) % 2 = 1 THEN <<0>> \o num ELSE num
    IN  IF num = <<>> THEN <<0>>
        ELSE [i \in 1..(Len(d) \div 2) |-> d[2 * i - 1] * 16 + d[2 * i]]

\* BigUint::from_bytes_be
BigUint_from_bytes_be(bytes) ==
    Normalize([i \in 1..(2 * Len(bytes)) |->
                  IF i % 2 = 1 THEN bytes[(i + 1) \div 2] \div 16
                  ELSE bytes[i \div 2] % 16])

-----------------------------------------------------------------------------
(* src/cncs-sm2-kit/src/types/mod.rs                                       *)

\* the LEN of to_bytes::<32>
LEN == 32

\* to_bytes keeping the low LEN bytes of a number that does not fit
to_bytes_truncating(num) ==
    LET data == BigUint_to_bytes_be(num)
    IN  IF Len(data) > LEN
        THEN [kind |-> "Ok", bytes |-> SubSeq(data, Len(data) - LEN + 1, Len(data))]
        ELSE [kind |-> "Ok", bytes |-> Repeat(0, LEN - Len(data)) \o data]

\* to_bytes without the zeros on the left
to_bytes_unpadded(num) ==
    LET data == BigUint_to_bytes_be(num)
    IN  IF Len(data) > LEN THEN [kind |-> "abort", bytes |-> <<>>]
        ELSE [kind |-> "Ok", bytes |-> data]

\* to_bytes::<LEN>(num): `LEN - data.len()` underflows, and the call aborts,
\* when the number has more than LEN bytes
to_bytes(num) ==
    LET data == BigUint_to_bytes_be(num)
    IN  IF Len(data) > LEN THEN [kind |-> "abort", bytes |-> <<>>]
        ELSE [kind |-> "Ok", bytes |-> Repeat(0, LEN - Len(data)) \o data]

\* to_hex_str with AsciiCase::Lower
to_hex_str_lower(data) ==
    [i \in 1..(2 * Len(data)) |->
        IF i % 2 = 1 THEN HexLower[(data[(i + 1) \div 2] \div 16) + 1]
        ELSE HexLower[(data[i \div 2] % 16) + 1]]

\* to_hex_str(data): hex_simd's upper-case encoding
to_hex_str(data) ==
    [i \in 1..(2 * Len(data)) |->
        IF i % 2 = 1 THEN HexUpper[(data[(i + 1) \div 2] \div 16) + 1]
        ELSE HexUpper[(data[i \div 2] % 16) + 1]]

-----------------------------------------------------------------------------
(* The codecs of PrivateKey, PublicKey and Signature.  A value is its two  *)
(* components a and b: (x, y), (r, s), or d and nothing.                   *)

Value(a, b) == [a |-> a, b |-> b]

NoValue == Value(<<>>, <<>>)

Parsed(v) == [kind |-> "Ok", val |-> v]

Failed(e) == [kind |-> e, val |-> NoValue]

\* PrivateKey::from_hex_str
PrivateKey_from_hex_str(hex_str) ==
    LET d == from_str_radix(hex_str)
    IN  IF d.kind = "Err" THEN Failed(d.err) ELSE Parsed(Value(d.num, <<>>))

\* PrivateKey::to_hex_str, which src/cncs-sm2-gen/src/main.rs calls: the
\* scalar as 64 upper-case hex characters
PrivateKey_to_hex_str(v) ==
    IF to_bytes(v.a).kind = "abort" THEN [kind |-> "abort", str |-> <<>>]
    ELSE [kind |-> "Ok", str |-> to_hex_str(to_bytes(v.a).bytes)]

\* PublicKey::from_hex_str and Signature::from_hex_str: the first
\* component is parsed first and its error returned first
from_hex_str(a_hex_str, b_hex_str) ==
    LET a == from_str_radix(a_hex_str)
        b == from_str_radix(b_hex_str)
    IN  IF a.kind = "Err" THEN Failed(a.err)
        ELSE IF b.kind = "Err" THEN Failed(b.err)
        ELSE Parsed(Value(a.num, b.num))

\* PublicKey::from_bytes and Signature::from_bytes
from_bytes(a_bytes, b_bytes) ==
    Value(BigUint_from_bytes_be(a_bytes), BigUint_from_bytes_be(b_bytes))

\* PublicKey::from_concated_hex_str
PublicKey_from_concated_hex_str(hex_str) ==
    IF StrLen(hex_str) = 130
    THEN IF ~starts_with(hex_str, <<"0", "4">>) THEN Failed("Invalid")
         ELSE IF ~(CanSlice(hex_str, 2, 66) /\ CanSlice(hex_str, 66, 130))
         THEN Failed("abort")
         ELSE from_hex_str(Slice(hex_str, 2, 66), Slice(hex_str, 66, 130))
    ELSE IF StrLen(hex_str) = 128
    THEN IF ~(CanSlice(hex_str, 0, 64) /\ CanSlice(hex_str, 64, 128))
         THEN Failed("abort")
         ELSE from_hex_str(Slice(hex_str, 0, 64), Slice(hex_str, 64, 128))
    ELSE Failed("Invalid")

\* Signature::from_concated_hex_str
Signature_from_concated_hex_str(hex_str) ==
    IF StrLen(hex_str) = 128
    THEN IF ~(CanSlice(hex_str, 0, 64) /\ CanSlice(hex_str, 64, 128))
         THEN Failed("abort")
         ELSE from_hex_str(Slice(hex_str, 0, 64), Slice(hex_str, 64, 128))
    ELSE Failed("Invalid")

\* PublicKey::to_concated_bytes and Signature::to_concated_bytes
to_concated_bytes(v) ==
    IF to_bytes(v.a).kind = "abort" \/ to_bytes(v.b).kind = "abort"
    THEN [kind |-> "abort", bytes |-> <<>>]
    ELSE [kind |-> "Ok", bytes |-> to_bytes(v.a).bytes \o to_bytes(v.b).bytes]

\* PublicKey::to_concated_hex_str and Signature::to_concated_hex_str
to_concated_hex_str(v) ==
    IF to_concated_bytes(v).kind = "abort" THEN [kind |-> "abort", str |-> <<>>]
    ELSE [kind |-> "Ok", str |-> to_hex_str(to_concated_bytes(v).bytes)]

-----------------------------------------------------------------------------
(* Inputs of the sign / verify scenario.                                   *)

\* private keys: the scalars 1 .. n-2 that PrivateKey::random_via_libsm
\* and random_via_gmsm return
Keys == 1..(N - 2)

\* the ephemeral scalars k: every k in 1..n-1 is followed, for libsm's
\* sign_raw and for gmsm's encrypt
Nonces == 1..(N - 1)

MsgBytes == {0, 1}

Msgs == SeqsUpTo(MsgBytes, MaxMsgLen)

UserIds == {DefaultUserId, <<>>} \cup {<<c>> : c \in 1..MaxIdChar}

OptUserIds == {None} \cup {Some(id) : id \in UserIds}

\* a number one byte wider than a field element (2^256 in SM2)
FieldWidth == 16

Coords == (0..MaxCoord) \cup {FieldWidth}

\* signature components around the ends of the valid range 1 .. n-1
SigParts == (0..1) \cup {N - 1, N, N + 1}

NoSig == Signature(0, 0)

NoKey == PublicKey(0, 0)

SignIdle ==
    /\ pc = "start"
    /\ sk = 0
    /\ smsg = <<>>
    /\ suid = None
    /\ nonce = 0
    /\ sdigest = <<>>
    /\ sig = NoSig
    /\ retries = 0
    /\ vpk = NoKey
    /\ vmsg = <<>>
    /\ vuid = None
    /\ vsig = NoSig
    /\ vdigest = <<>>
    /\ vret = "none"

\* what the sign / verify scenario leaves alone
signOthers == <<codecVars, encVars>>

\* sign(private_key, msg, user_id) is entered
SignCall ==
    /\ pc = "start"
    /\ UNCHANGED signOthers
    /\ \E d \in Keys, m \in Msgs, uid \in OptUserIds :
          /\ sk' = d
          /\ smsg' = m
          /\ suid' = uid
    /\ pc' = "signing"
    /\ UNCHANGED <<nonce, sdigest, sig, retries, vpk, vmsg, vuid, vsig, vdigest, vret>>

\* one iteration of the loop of sign_raw drew k and ended in `continue`
SignRetry ==
    /\ pc = "signing"
    /\ UNCHANGED signOthers
    /\ retries < MaxRetries
    /\ \E k \in Nonces :
          sign_raw(sign_digest(PrivateKey(sk), smsg, suid), sk, k).kind = "continue"
    /\ retries' = retries + 1
    /\ UNCHANGED <<pc, sk, smsg, suid, nonce, sdigest, sig,
                   vpk, vmsg, vuid, vsig, vdigest, vret>>

\* one iteration of the loop of sign_raw drew k and returned: sign returns
SignReturn ==
    /\ pc = "signing"
    /\ UNCHANGED signOthers
    /\ \E k \in Nonces :
          LET digest == sign_digest(PrivateKey(sk), smsg, suid)
              step   == sign_raw(digest, sk, k)
          IN  /\ step.kind = "return"
              /\ nonce' = k
              /\ sdigest' = digest
              /\ sig' = Signature_from_libsm(step.sig)
    /\ pc' = "signed"
    /\ retries' = 0
    /\ UNCHANGED <<sk, smsg, suid, vpk, vmsg, vuid, vsig, vdigest, vret>>

\* one iteration of the loop of sign_raw drew k and found s = 0: sign aborts
SignAbort ==
    /\ pc = "signing"
    /\ UNCHANGED signOthers
    /\ \E k \in Nonces :
          LET digest == sign_digest(PrivateKey(sk), smsg, suid)
          IN  /\ sign_raw(digest, sk, k).kind = "panic"
              /\ nonce' = k
              /\ sdigest' = digest
    /\ pc' = "sign_abort"
    /\ UNCHANGED <<sk, smsg, suid, sig, retries, vpk, vmsg, vuid, vsig, vdigest, vret>>

\* verify(public_key, msg, user_id, signature) runs to its end
Verify(pk, m, uid, sg) ==
    /\ pc' = "verified"
    /\ vpk' = pk
    /\ vmsg' = m
    /\ vuid' = uid
    /\ vsig' = sg
    /\ vdigest' = IF LibsmPoint_try_from(pk).kind = "Ok"
                  THEN verify_digest(LibsmPoint_try_from(pk).pt, m, uid)
                  ELSE <<>>
    /\ vret' = verify(pk, m, uid, sg)
    /\ UNCHANGED <<sk, smsg, suid, nonce, sdigest, sig, retries>>

\* verify on what sign was given and returned
VerifySigned ==
    /\ pc = "signed"
    /\ UNCHANGED signOthers
    /\ Verify(public_key(PrivateKey(sk)), smsg, suid, sig)

\* verify on another message
VerifyOtherMsg ==
    /\ pc = "signed"
    /\ UNCHANGED signOthers
    /\ \E m \in Msgs \ {smsg} :
          Verify(public_key(PrivateKey(sk)), m, suid, sig)

\* verify under another user_id
VerifyOtherUserId ==
    /\ pc = "signed"
    /\ UNCHANGED signOthers
    /\ \E uid \in OptUserIds \ {suid} :
          Verify(public_key(PrivateKey(sk)), smsg, uid, sig)

\* verify on a signature with another r or another s
VerifyOtherSig ==
    /\ pc = "signed"
    /\ UNCHANGED signOthers
    /\ \E sg \in ({Signature(r, sig.s) : r \in 0..(N + 1)}
                  \cup {Signature(sig.r, s) : s \in 0..(N + 1)}) \ {sig} :
          Verify(public_key(PrivateKey(sk)), smsg, suid, sg)

\* verify under any public key a caller can build with PublicKey::new
VerifyAnyKey ==
    /\ pc = "start"
    /\ UNCHANGED signOthers
    /\ \E x \in Coords, y \in Coords, m \in Msgs, uid \in OptUserIds,
          r \in SigParts, s \in SigParts :
          Verify(PublicKey(x, y), m, uid, Signature(r, s))

SignNext ==
    \/ SignCall
    \/ SignRetry
    \/ SignReturn
    \/ SignAbort
    \/ VerifySigned
    \/ VerifyOtherMsg
    \/ VerifyOtherUserId
    \/ VerifyOtherSig
    \/ VerifyAnyKey


-----------------------------------------------------------------------------
(* Inputs of the codec scenario.                                           *)

\* numbers 0..MaxNum are drawn digit by digit
MaxNum == 16

\* input lengths within MaxSlack of each width the codecs name
MaxSlack == 1

\* codec operations applied in a row
MaxOps == 3

RECURSIVE Digits(_)
Digits(n) == IF n = 0 THEN <<>> ELSE Append(Digits(n \div 16), n % 16)

\* the widest number that fits LEN bytes, one that fills LEN bytes with a
\* low first byte, one with a zero first byte, and the first that does not
\* fit
WideNums ==
    { Repeat(15, 2 * LEN),
      <<1>> \o Repeat(0, 2 * LEN - 1),
      Repeat(15, 2 * LEN - 2),
      <<1>> \o Repeat(0, 2 * LEN) }

Nums == {Digits(n) : n \in 0..MaxNum} \cup WideNums

FitsLEN(num) == Len(num) <= 2 * LEN

Kinds == {"PrivateKey", "PublicKey", "Signature"}

FillChars == {"0", "A", "f"}

BadTokens == {<<"g">>, <<"+">>, <<"_">>, <<LeadByte, ContByte>>}

Overwrite(str, i, tok) ==
    [j \in 1..Len(str) |->
        IF j >= i /\ j < i + Len(tok) THEN tok[j - i + 1] ELSE str[j]]

Widths == {2 * LEN, 4 * LEN, 4 * LEN + 2}

Near(w) == {l \in (w - MaxSlack)..(w + MaxSlack) : l >= 0}

\* two runs of characters, with or without two leading characters
Bases(l) ==
    { Repeat(c1, l \div 2) \o Repeat(c2, l - (l \div 2)) :
          c1 \in FillChars, c2 \in FillChars }
    \cup (IF l < 2 THEN {}
          ELSE { <<"0", d>> \o Repeat(c1, (l - 2) \div 2)
                            \o Repeat(c2, (l - 2) - ((l - 2) \div 2)) :
                     d \in {"4", "5"}, c1 \in {"0", "A"}, c2 \in {"A"} })

PatchAt(l) == {i \in {1, 2, 2 * LEN, 2 * LEN + 1, 2 * LEN + 2, l} : i <= l}

Patched(base) ==
    {base} \cup
    { Overwrite(base, i, tok) :
          i \in {j \in PatchAt(Len(base)) : TRUE}, tok \in BadTokens }

\* strings of the lengths in ls: hex digits, possibly with one other
\* character written over them
StringsOf(ls) ==
    UNION { UNION { {t \in Patched(b) : Len(t) = l} : b \in Bases(l) } : l \in ls }

ConcatInputs == StringsOf({0} \cup Near(4 * LEN) \cup Near(4 * LEN + 2))

PartInputs == StringsOf(Near(0) \cup Near(2 * LEN))

GoodPart == Repeat("A", 2 * LEN)

CodecIdle ==
    /\ cpath = <<>>
    /\ ckind = "none"
    /\ cval0 = NoValue
    /\ cstr0 = <<>>
    /\ cval = NoValue
    /\ cstr = <<>>
    /\ cbytes = <<>>
    /\ cres = "none"

LastOp == IF cpath = <<>> THEN "none" ELSE cpath[Len(cpath)]

\* a value is at hand: the last operation built or parsed one
HasValue ==
    /\ Len(cpath) < MaxOps
    /\ cres = "Ok"
    /\ LastOp \in {"new", "from_hex_str", "from_concated_hex_str", "from_bytes"}

-----------------------------------------------------------------------------
(* The codec scenario: a value is built, or a string is given; then the    *)
(* codecs are applied to what the last one returned.                       *)

codecOthers == <<signVars, encVars>>

\* PrivateKey::new, PublicKey::new, Signature::new
CodecNew ==
    /\ cpath = <<>>
    /\ UNCHANGED codecOthers
    /\ \E kind \in Kinds, a \in Nums :
       \E b \in (IF kind = "PrivateKey" THEN {<<>>} ELSE Nums) :
          /\ ckind' = kind
          /\ cval0' = Value(a, b)
          /\ cval' = Value(a, b)
          /\ cpath' = <<"new">>
          /\ cres' = "Ok"
          /\ UNCHANGED <<cstr0, cstr, cbytes>>

\* the caller holds one concatenated string, or one string per component
CodecInput ==
    /\ cpath = <<>>
    /\ UNCHANGED codecOthers
    /\ \E kind \in Kinds :
       \E strs \in (IF kind = "PrivateKey" THEN {<<t>> : t \in PartInputs}
                    ELSE {<<t>> : t \in ConcatInputs}
                         \cup {<<t, GoodPart>> : t \in PartInputs}
                         \cup {<<GoodPart, t>> : t \in PartInputs}) :
          /\ ckind' = kind
          /\ cstr0' = strs
          /\ cstr' = strs
          /\ cpath' = <<"input">>
          /\ cres' = "Ok"
          /\ UNCHANGED <<cval0, cval, cbytes>>

\* PublicKey::to_concated_hex_str, Signature::to_concated_hex_str
CodecToConcatedHexStr ==
    /\ HasValue
    /\ ckind \in {"PublicKey", "Signature"}
    /\ UNCHANGED codecOthers
    /\ cres' = to_concated_hex_str(cval).kind
    /\ cstr' = <<to_concated_hex_str(cval).str>>
    /\ cpath' = Append(cpath, "to_concated_hex_str")
    /\ UNCHANGED <<ckind, cval0, cstr0, cval, cbytes>>

\* PublicKey::to_concated_bytes, Signature::to_concated_bytes
CodecToConcatedBytes ==
    /\ HasValue
    /\ ckind \in {"PublicKey", "Signature"}
    /\ UNCHANGED codecOthers
    /\ cres' = to_concated_bytes(cval).kind
    /\ cbytes' = to_concated_bytes(cval).bytes
    /\ cpath' = Append(cpath, "to_concated_bytes")
    /\ UNCHANGED <<ckind, cval0, cstr0, cval, cstr>>

\* PrivateKey::to_hex_str
CodecToHexStr ==
    /\ HasValue
    /\ ckind = "PrivateKey"
    /\ UNCHANGED codecOthers
    /\ cres' = PrivateKey_to_hex_str(cval).kind
    /\ cstr' = <<PrivateKey_to_hex_str(cval).str>>
    /\ cpath' = Append(cpath, "to_hex_str")
    /\ UNCHANGED <<ckind, cval0, cstr0, cval, cbytes>>

\* PublicKey::from_concated_hex_str, Signature::from_concated_hex_str, on
\* the string at hand; a public key string may be given the "04" marker
CodecFromConcatedHexStr ==
    /\ Len(cpath) < MaxOps
    /\ cres = "Ok"
    /\ LastOp \in {"input", "to_concated_hex_str"}
    /\ ckind \in {"PublicKey", "Signature"}
    /\ Len(cstr) = 1
    /\ UNCHANGED codecOthers
    /\ \E marker \in (IF ckind = "PublicKey" /\ LastOp = "to_concated_hex_str"
                      THEN {<<>>, <<"0", "4">>} ELSE {<<>>}) :
          LET hex_str == marker \o cstr[1]
              ret == IF ckind = "PublicKey"
                     THEN PublicKey_from_concated_hex_str(hex_str)
                     ELSE Signature_from_concated_hex_str(hex_str)
          IN  /\ cstr' = <<hex_str>>
              /\ cres' = ret.kind
              /\ cval' = ret.val
    /\ cpath' = Append(cpath, "from_concated_hex_str")
    /\ UNCHANGED <<ckind, cval0, cstr0, cbytes>>

\* PrivateKey::from_hex_str, PublicKey::from_hex_str, Signature::from_hex_str
CodecFromHexStr ==
    /\ Len(cpath) < MaxOps
    /\ cres = "Ok"
    /\ \/ ckind = "PrivateKey" /\ LastOp \in {"input", "to_hex_str"}
       \/ ckind \in {"PublicKey", "Signature"} /\ LastOp = "input" /\ Len(cstr) = 2
    /\ UNCHANGED codecOthers
    /\ LET ret == IF ckind = "PrivateKey" THEN PrivateKey_from_hex_str(cstr[1])
                  ELSE from_hex_str(cstr[1], cstr[2])
       IN  /\ cres' = ret.kind
           /\ cval' = ret.val
    /\ cpath' = Append(cpath, "from_hex_str")
    /\ UNCHANGED <<ckind, cval0, cstr0, cstr, cbytes>>

\* PublicKey::from_bytes, Signature::from_bytes on the two halves of the
\* concatenated bytes
CodecFromBytes ==
    /\ Len(cpath) < MaxOps
    /\ cres = "Ok"
    /\ LastOp = "to_concated_bytes"
    /\ UNCHANGED codecOthers
    /\ cval' = from_bytes(SubSeq(cbytes, 1, LEN), SubSeq(cbytes, LEN + 1, 2 * LEN))
    /\ cres' = "Ok"
    /\ cpath' = Append(cpath, "from_bytes")
    /\ UNCHANGED <<ckind, cval0, cstr0, cstr, cbytes>>

\* byte strings a caller can hand to from_bytes: none, LEN bytes, and one
\* byte more than LEN
ByteInputs ==
    { <<>>, Repeat(255, LEN), <<0>> \o Repeat(255, LEN), <<1>> \o Repeat(0, LEN) }

\* PublicKey::from_bytes, Signature::from_bytes on bytes the caller holds
CodecFromGivenBytes ==
    /\ cpath = <<>>
    /\ UNCHANGED codecOthers
    /\ \E kind \in {"PublicKey", "Signature"}, a \in ByteInputs, b \in ByteInputs :
          /\ ckind' = kind
          /\ cval' = from_bytes(a, b)
    /\ cres' = "Ok"
    /\ cpath' = <<"from_bytes">>
    /\ UNCHANGED <<cval0, cstr0, cstr, cbytes>>

CodecNext ==
    \/ CodecNew
    \/ CodecFromGivenBytes
    \/ CodecInput
    \/ CodecToConcatedHexStr
    \/ CodecToConcatedBytes
    \/ CodecToHexStr
    \/ CodecFromConcatedHexStr
    \/ CodecFromHexStr
    \/ CodecFromBytes

-----------------------------------------------------------------------------
(* The encrypt / decrypt scenario: encrypt is called for the public key of *)
(* a key pair and loops until an iteration returns; decrypt is then called *)
(* with the bytes encrypt returned, or with a prefix of them, under any    *)
(* mode.                                                                   *)

Plains == SeqsUpTo(MsgBytes, MaxPlainLen)

OptModes == {None} \cup {Some(m) : m \in EncryptMode}

NoRet == [kind |-> "none", bytes |-> <<>>]

EncIdle ==
    /\ ephase = "start"
    /\ ekey = 0
    /\ emsg = <<>>
    /\ emode = None
    /\ ek = 0
    /\ eretries = 0
    /\ ect = <<>>
    /\ dmsg = <<>>
    /\ dmode = None
    /\ dret = NoRet

encOthers == <<signVars, codecVars>>

\* encrypt(public_key, msg, mode) is called
EncryptCall ==
    /\ ephase = "start"
    /\ UNCHANGED encOthers
    /\ \E d \in Keys, m \in Plains, mode \in OptModes :
          /\ ekey' = d
          /\ emsg' = m
          /\ emode' = mode
    /\ ephase' = "encrypting"
    /\ UNCHANGED <<ek, eretries, ect, dmsg, dmode, dret>>

\* one iteration of gmsm's loop drew k and ended in `continue`
EncryptRetry ==
    /\ ephase = "encrypting"
    /\ UNCHANGED encOthers
    /\ eretries < MaxRetries
    /\ \E k \in Nonces :
          encrypt(public_key(PrivateKey(ekey)), emsg, emode, k).kind = "continue"
    /\ eretries' = eretries + 1
    /\ UNCHANGED <<ephase, ekey, emsg, emode, ek, ect, dmsg, dmode, dret>>

\* one iteration of gmsm's loop drew k and returned: encrypt returns
EncryptReturn ==
    /\ ephase = "encrypting"
    /\ UNCHANGED encOthers
    /\ \E k \in Nonces :
          LET step == encrypt(public_key(PrivateKey(ekey)), emsg, emode, k)
          IN  /\ step.kind = "return"
              /\ ek' = k
              /\ ect' = step.bytes
    /\ ephase' = "encrypted"
    /\ eretries' = 0
    /\ UNCHANGED <<ekey, emsg, emode, dmsg, dmode, dret>>

\* decrypt(private_key, msg, mode) runs to its end
Decrypt ==
    /\ ephase = "encrypted"
    /\ UNCHANGED encOthers
    /\ \E n \in 0..Len(ect), mode \in OptModes :
       \E ret \in decrypt(PrivateKey(ekey), SubSeq(ect, 1, n), mode) :
          /\ dmsg' = SubSeq(ect, 1, n)
          /\ dmode' = mode
          /\ dret' = ret
    /\ ephase' = "decrypted"
    /\ UNCHANGED <<ekey, emsg, emode, ek, eretries, ect>>

EncNext ==
    \/ EncryptCall
    \/ EncryptRetry
    \/ EncryptReturn
    \/ Decrypt

-----------------------------------------------------------------------------
(* Specifications                                                          *)

SignInit == SignIdle /\ CodecIdle /\ EncIdle

SpecSign == SignInit /\ [][SignNext]_vars

CodecInit == SignIdle /\ CodecIdle /\ EncIdle

SpecCodec == CodecInit /\ [][CodecNext]_vars

EncInit == SignIdle /\ CodecIdle /\ EncIdle

SpecEnc == EncInit /\ [][EncNext]_vars

-----------------------------------------------------------------------------
(* Claims about sign and verify, checked under SpecSign.                   *)

\* the public key of the signing key
SignerKey == public_key(PrivateKey(sk))

\* sign has returned and verify has run under the signer's public key
VerifiedForSigner == pc = "verified" /\ sig # NoSig /\ vpk = SignerKey

C3_OffCurveIsError ==
    (pc = "verified" /\ ~OnCurve(vpk.x, vpk.y)) => vret = "Err(ToLibsmPointFailed)"

\* verify was given exactly one input that differs from what was signed
OneInputDiffers ==
    \/ vmsg # smsg /\ vuid = suid /\ vsig = sig
    \/ vmsg = smsg /\ vuid # suid /\ vsig = sig
    \/ vmsg = smsg /\ vuid = suid /\ vsig # sig

Signable(digest) ==
    {Signature_from_libsm(sign_raw(digest, sk, k).sig) :
        k \in {j \in Nonces : sign_raw(digest, sk, j).kind = "return"}}

IdentityOf(uid) == IF IsSome(uid) THEN Unwrap(uid) ELSE DefaultUserId

-----------------------------------------------------------------------------
(* Claims about the codecs, checked under SpecCodec                        *)

AllHex(str) == \A i \in 1..Len(str) : IsHex(str[i])

AllUpperHex(str) == \A i \in 1..Len(str) : IsUpperHex(str[i])

\* the number a string of hex digits writes
NumeralOf(str) == Normalize([i \in 1..Len(str) |-> HexValue(str[i])])

\* the string handed to the parser that ran last
Given == cstr[1]

\* C6: PublicKey::from_concated_hex_str succeeds exactly on a 128-character
\* hex string, read as x = characters 0..64 and y = characters 64..128, and
\* on a 130-character hex string starting with "04", read as x = characters
\* 2..66 and y = characters 66..130; every other input is an error and no
\* input makes it abort.
C6_ParsesExactlyTwoShapes ==
    (ckind = "PublicKey" /\ LastOp = "from_concated_hex_str") =>
        /\ cres # "abort"
        /\ cres = "Ok" <=>
              /\ AllHex(Given)
              /\ \/ StrLen(Given) = 128
                 \/ StrLen(Given) = 130 /\ starts_with(Given, <<"0", "4">>)
        /\ (cres = "Ok" /\ StrLen(Given) = 128) =>
              cval = Value(NumeralOf(SubSeq(Given, 1, 64)),
                           NumeralOf(SubSeq(Given, 65, 128)))
        /\ (cres = "Ok" /\ StrLen(Given) = 130) =>
              cval = Value(NumeralOf(SubSeq(Given, 3, 66)),
                           NumeralOf(SubSeq(Given, 67, 130)))

\* a value was built, serialised and parsed back
RoundTripOfValue ==
    /\ Len(cpath) = 3
    /\ cpath[1] = "new"
    /\ cpath[2] \in {"to_hex_str", "to_concated_hex_str"}
    /\ cpath[3] \in {"from_hex_str", "from_concated_hex_str"}

\* C7: parsing the serialised form gives back the value, for a private key,
\* for a public key in the 128-character form and in the form with the "04"
\* marker, and for a signature, whenever the components are below 2^256;
\* leading zero bytes and the value 0 included.
C7_ParseOfSerialisedIsValue ==
    (RoundTripOfValue /\ FitsLEN(cval0.a) /\ FitsLEN(cval0.b)) =>
        (cres = "Ok" /\ cval = cval0)

\* a public key with x = 0 and a y whose first byte is zero went through
\* the form with the "04" marker
C7_Witness ==
    /\ RoundTripOfValue
    /\ ckind = "PublicKey"
    /\ StrLen(Given) = 130
    /\ cval0 = Value(<<>>, Repeat(15, 2 * LEN - 2))
    /\ cval = cval0

\* a string was given, parsed and serialised again
RoundTripOfString ==
    cpath = <<"input", "from_concated_hex_str", "to_concated_hex_str">>

\* C8: for components below 2^256, to_concated_bytes is 64 bytes, each
\* component as 32 big-endian bytes left-padded with zeros, without a prefix
\* byte; to_concated_hex_str is the 128-character upper-case hex of those
\* bytes; and so serialising the parse of a 128-character upper-case hex
\* string gives the string back.
C8_FixedWidthUpperHex ==
    /\ (LastOp = "to_concated_bytes" /\ FitsLEN(cval.a) /\ FitsLEN(cval.b)) =>
          /\ cres = "Ok"
          /\ Len(cbytes) = 64
          /\ BigUint_from_bytes_be(SubSeq(cbytes, 1, 32)) = cval.a
          /\ BigUint_from_bytes_be(SubSeq(cbytes, 33, 64)) = cval.b
    /\ (LastOp = "to_concated_hex_str" /\ FitsLEN(cval.a) /\ FitsLEN(cval.b)) =>
          /\ cres = "Ok"
          /\ StrLen(Given) = 128
          /\ AllUpperHex(Given)
          /\ \A i \in 1..64 :
                16 * HexValue(Given[2 * i - 1]) + HexValue(Given[2 * i])
                    = to_concated_bytes(cval).bytes[i]
    /\ (RoundTripOfString /\ StrLen(cstr0[1]) = 128 /\ AllUpperHex(cstr0[1])) =>
          (cres = "Ok" /\ cstr = cstr0)

\* an upper-case string whose first component is all zero digits came back
C8_Witness ==
    /\ RoundTripOfString
    /\ cstr0 = <<Repeat("0", 64) \o Repeat("A", 64)>>
    /\ cres = "Ok"
    /\ cstr = cstr0

\* the errors that report a length
LengthErrors == {"Invalid", "Empty"}

\* what the claim asks of a parser given strs, each to be width long
Expected(strs, width) ==
    IF \E i \in 1..Len(strs) : StrLen(strs[i]) # width THEN LengthErrors
    ELSE IF \E i \in 1..Len(strs) : ~AllHex(strs[i]) THEN {"InvalidDigit"}
    ELSE {"Ok"}

\* C9: decoding from hex reports a wrong length apart from an invalid digit
\* and never accepts a string that is too short or too long: a private key,
\* a coordinate or a signature component whose length is not 64, and a
\* concatenated signature whose length is not 128, yield the wrong-length
\* error; a string of the right length with a non-hex character yields the
\* invalid-digit error.
C9_WrongLengthIsReported ==
    /\ (cpath = <<"input", "from_hex_str">>) => cres \in Expected(cstr, 64)
    /\ (cpath = <<"input", "from_concated_hex_str">> /\ ckind = "Signature") =>
          cres \in Expected(cstr, 128)

\* both components of the value in hand are below 2^256
BothFit == FitsLEN(cval.a) /\ FitsLEN(cval.b)

\* C13: to_concated_bytes and to_concated_hex_str of a PublicKey or a
\* Signature return if and only if both components are below 2^256 and
\* abort otherwise; new, from_bytes and from_hex_str accept a component of
\* any size, so that such values exist; and every value that
\* from_concated_hex_str returns has both components below 2^256.
C13_SerialisersAbortOnWideComponent ==
    /\ (LastOp \in {"to_concated_bytes", "to_concated_hex_str"}) =>
          /\ cres = "Ok" <=> BothFit
          /\ cres = "abort" <=> ~BothFit
    /\ (cpath = <<"input", "from_hex_str">> /\ ckind # "PrivateKey"
           /\ \A i \in 1..2 : cstr[i] # <<>> /\ AllHex(cstr[i])) =>
          /\ cres = "Ok"
          /\ cval = Value(NumeralOf(cstr[1]), NumeralOf(cstr[2]))
    /\ (LastOp \in {"new", "from_bytes"}) => cres = "Ok"
    /\ (LastOp = "from_concated_hex_str" /\ cres = "Ok") => BothFit

\* from_hex_str took a component of 65 hex digits and to_concated_bytes of
\* the value aborted
C13_Witness ==
    /\ cpath = <<"input", "from_hex_str", "to_concated_bytes">>
    /\ ckind = "Signature"
    /\ Len(cval.a) = 2 * LEN + 1
    /\ cres = "abort"

-----------------------------------------------------------------------------
(* Claims about encrypt and decrypt, checked under SpecEnc                 *)

\* decrypt was handed the bytes encrypt returned, under encrypt's mode
DecryptedSame == ephase = "decrypted" /\ dmsg = ect /\ dmode = emode

\* C2: for every message, the empty one included, every key pair and each
\* of the two modes, encrypt returns and decrypt, handed what encrypt
\* returned under the same mode, returns exactly the message, whatever
\* ephemeral scalar encrypt drew.
C2_RoundTrip ==
    /\ (ephase = "encrypting" /\ IsSome(emode)) =>
          \E k \in Nonces :
              encrypt(public_key(PrivateKey(ekey)), emsg, emode, k).kind = "return"
    /\ (DecryptedSame /\ IsSome(emode)) =>
          dret = [kind |-> "bytes", bytes |-> emsg]

\* C10: decrypt handed a ciphertext shorter than C1 and C3 together ends in
\* an error reported to the caller, under both modes and under the omitted
\* mode: it neither aborts nor returns bytes.
C10_ShortCiphertextIsError ==
    (ephase = "decrypted" /\ Len(dmsg) < C1Len + C3Len) =>
        dret.kind \notin {"abort", "bytes"}

\* decrypt was handed the bytes encrypt returned, under the other layout
DecryptedOther ==
    /\ ephase = "decrypted"
    /\ dmsg = ect
    /\ unwrap_or_default(dmode) # unwrap_or_default(emode)

\* C11: for every message, key pair and pair of different modes, decrypt
\* under the one mode, handed what encrypt returned under the other, does
\* not return the message.
C11_WrongModeNeverReturnsMessage ==
    DecryptedOther => dret # [kind |-> "bytes", bytes |-> emsg]

\* one call was given no mode and the other Some(C1C3C2)
OmittedAgainstC1C3C2 ==
    \/ emode = None /\ dmode = Some("C1C3C2")
    \/ emode = Some("C1C3C2") /\ dmode = None

\* the shared point k * Q of the encryption that returned
SharedPoint == mul(ek, Pt(public_key(PrivateKey(ekey)).x, public_key(PrivateKey(ekey)).y))

\* C12: an omitted mode means C1C3C2 in encrypt and in decrypt: what
\* encrypt returns without a mode is the marker byte, C1 = k * G, then
\* C3 = Hash(x2 || m || y2), then C2 of the length of the message; decrypt
\* with Some(C1C3C2) returns the message from it, and decrypt without a mode
\* returns the message from what encrypt returned with Some(C1C3C2).
C12_OmittedModeIsC1C3C2 ==
    /\ (ephase \in {"encrypted", "decrypted"} /\ emode = None) =>
          /\ Len(ect) = 1 + C1Len + C3Len + Len(emsg)
          /\ SubSeq(ect, 2, 1 + C1Len)
                = FieldBytes(g_mul(ek).x) \o FieldBytes(g_mul(ek).y)
          /\ SubSeq(ect, 2 + C1Len, 1 + C1Len + C3Len)
                = Sm3(FieldBytes(SharedPoint.x) \o emsg \o FieldBytes(SharedPoint.y))
    /\ (ephase = "decrypted" /\ dmsg = ect /\ OmittedAgainstC1C3C2) =>
          dret = [kind |-> "bytes", bytes |-> emsg]

\* a message of two bytes, encrypted without a mode, came back from decrypt
\* with Some(C1C3C2)
C12_Witness ==
    /\ ephase = "decrypted"
    /\ dmsg = ect
    /\ emode = None
    /\ dmode = Some("C1C3C2")
    /\ Len(emsg) = 2
    /\ dret = [kind |-> "bytes", bytes |-> emsg]

====
